---- MODULE Spec2Model ----
(***************************************************************************)
(* Model of the Si7021 driver (src/src/Si7021.cpp): the readSensor bus     *)
(* transaction and its callers, the register read-modify-write operations  *)
(* setHeater / setSensorResolution, and the serial number assembly.        *)
(*                                                                         *)
(* The driver is single threaded and blocking.  readSensor and             *)
(* getSerialNumber are modelled statement by statement (the bus transport  *)
(* is the environment and answers every available()/read() call); the      *)
(* register operations are modelled one action per call, with the bus      *)
(* traffic of the call kept in busLog.                                     *)
(***************************************************************************)
EXTENDS Integers, Sequences, FiniteSets, TLC

VARIABLES
    \* ---- readSensor and its callers
    pc,          \* position in readSensor / its caller
    caller,      \* the public function that started the transaction
    instr,       \* readSensor's parameter instr
    returnSize,  \* readSensor's parameter returnSize
    timeout,     \* readSensor's local uint8_t timeout
    avail,       \* what Wire.available() answers at this moment
    msb,         \* readSensor's local uint16_t msb
    lsb,         \* readSensor's local uint8_t lsb
    rx,          \* the bytes Wire.read() handed out in this call, in order
    result,      \* readSensor's return value
    trace,       \* the bus / delay calls made by this call, in order
    fDepth,      \* live frames of getTemperatureFromPreviousHumidityMeasurementF
    \* ---- the device registers and the register operations
    userReg,     \* device: user register
    heaterReg,   \* device: heater control register
    initUserReg, \* the user register's value at start (history)
    faithful,    \* every readRegister so far was answered by the device (history)
    last,        \* the last register operation: its arguments and the registers before it
    busLog,      \* the register transactions of the last operation, in order
    \* ---- getSerialNumber
    spc,         \* position in getSerialNumber
    serialNo,    \* local uint64_t serialNo, as 8 base-256 digits, most significant first
    buffer,      \* local uint8_t buffer
    savail,      \* what Wire.available() answers
    wire1,       \* bytes read in the first transaction, in order
    wire2        \* bytes read in the second transaction, in order

sensorVars == <<pc, caller, instr, returnSize, timeout, avail, msb, lsb, rx, result, trace, fDepth>>
regVars == <<userReg, heaterReg, initUserReg, faithful, last, busLog>>
serialVars == <<spc, serialNo, buffer, savail, wire1, wire2>>
vars == <<sensorVars, regVars, serialVars>>

----------------------------------------------------------------------------
\* C's & and | on unsigned values.
RECURSIVE BitAnd(_, _)
BitAnd(a, b) ==
    IF a = 0 \/ b = 0 THEN 0
    ELSE (a % 2) * (b % 2) + 2 * BitAnd(a \div 2, b \div 2)

RECURSIVE BitOr(_, _)
BitOr(a, b) ==
    IF a = 0 THEN b
    ELSE IF b = 0 THEN a
    ELSE (IF a % 2 = 1 \/ b % 2 = 1 THEN 1 ELSE 0) + 2 * BitOr(a \div 2, b \div 2)

\* The commands of Si7021.h, by name (their wire values play no part here).
MeasureTemperatureCmd == "SI7021_MEASURE_TEMPERATURE_NO_HOLD_MASTER_MODE"
MeasureHumidityCmd == "SI7021_MEASURE_HUMIDIY_NO_HOLD_MASTER_MODE"
PreviousTemperatureCmd == "SI7021_READ_TEMPERATURE_FROM_PREVIOUS_RH_MEASUREMENT"
Commands == {MeasureTemperatureCmd, MeasureHumidityCmd, PreviousTemperatureCmd}

\* The bytes the transport hands out in the readSensor model.
SensorBytes == {0, 1, 130, 255}

\* Si7021.h's poll bound; the 8-bit counter of line 34 can exceed any value below 255.
SI7021_READ_TIMEOUT == 100

\* Frames of the self-recursive Fahrenheit getter the stack holds before it overflows.
MaxDepth == 4

----------------------------------------------------------------------------
\* readSensor, line 47: the poll loop's condition.
LoopContinuesOffByOne(a, n) == a < n - 1
LoopContinues(a, n) == a < n

\* readSensor, line 50: the give-up test after timeout++.
TimeoutExpiredNever(t) == t > 255
TimeoutExpired(t) == t > SI7021_READ_TIMEOUT

\* readSensor, line 66: lsb &= 0xFC.
KeepLow2Bits(b) == b
ClearLow2Bits(b) == BitAnd(b, 252)

\* readSensor, line 68: (uint16_t)((msb << 8) | lsb).
CombineSwapped(m, l) == BitOr((l * 256) % 65536, m)
Combine(m, l) == BitOr((m * 256) % 65536, l)

\* readSensor, line 53: the value returned when the poll gives up.
TimeoutValue == 1

Push(ev) == trace' = Append(trace, ev)

\* A call of readSensor(i, n) by public function c: line 34, timeout = 0.
Enter(c, i, n) ==
    /\ pc \in {"idle", "done"}
    /\ pc' = "begin"
    /\ caller' = c
    /\ instr' = i
    /\ returnSize' = n
    /\ timeout' = 0
    /\ avail' = 0
    /\ msb' = 0
    /\ lsb' = 0
    /\ rx' = <<>>
    /\ result' = 0
    /\ trace' = <<>>
    /\ UNCHANGED <<fDepth, regVars, serialVars>>

\* measureTemperature, line 77.
MeasureTemperature == Enter("measureTemperature", MeasureTemperatureCmd, 3)

\* measureHumidity, line 95.
MeasureHumidity == Enter("measureHumidity", MeasureHumidityCmd, 3)

\* getTemperatureFromPreviousHumidityMeasurement, line 107.
GetTemperatureFromPreviousHumidityMeasurement ==
    Enter("getTemperatureFromPreviousHumidityMeasurement", PreviousTemperatureCmd, 2)

\* readSensor called with any command and either byte count.
ReadSensorCall == \E i \in Commands, n \in {2, 3} : Enter("readSensor", i, n)

\* Line 37: Wire.beginTransmission(SI7021_ADDRESS).
BeginTransmission ==
    /\ pc = "begin"
    /\ pc' = "write"
    /\ Push("beginTransmission")
    /\ UNCHANGED <<caller, instr, returnSize, timeout, avail, msb, lsb, rx, result, fDepth, regVars, serialVars>>

\* Line 38: Wire.write(instr).
WriteInstr ==
    /\ pc = "write"
    /\ pc' = "end"
    /\ Push("write")
    /\ UNCHANGED <<caller, instr, returnSize, timeout, avail, msb, lsb, rx, result, fDepth, regVars, serialVars>>

\* Line 39: Wire.endTransmission().
EndTransmission ==
    /\ pc = "end"
    /\ pc' = "delay"
    /\ Push("endTransmission")
    /\ UNCHANGED <<caller, instr, returnSize, timeout, avail, msb, lsb, rx, result, fDepth, regVars, serialVars>>

\* Line 43: delay(25).
Delay25 ==
    /\ pc = "delay"
    /\ pc' = "request"
    /\ Push("delay25")
    /\ UNCHANGED <<caller, instr, returnSize, timeout, avail, msb, lsb, rx, result, fDepth, regVars, serialVars>>

\* Line 46: Wire.requestFrom(SI7021_ADDRESS, returnSize); the device delivers
\* none, some or all of the bytes asked for.
RequestFrom ==
    /\ pc = "request"
    /\ pc' = "poll"
    /\ Push("requestFrom")
    /\ \E a \in 0..returnSize : avail' = a
    /\ UNCHANGED <<caller, instr, returnSize, timeout, msb, lsb, rx, result, fDepth, regVars, serialVars>>

\* Line 47: while (Wire.available() < returnSize).
Poll ==
    /\ pc = "poll"
    /\ Push(IF avail >= returnSize THEN "availableOk" ELSE "availableLow")
    /\ pc' = IF LoopContinues(avail, returnSize) THEN "wait" ELSE "readMsb"
    /\ UNCHANGED <<caller, instr, returnSize, timeout, avail, msb, lsb, rx, result, fDepth, regVars, serialVars>>

\* Lines 48-54: delay(1); timeout++; if (timeout > SI7021_READ_TIMEOUT) return 1.
\* More bytes may arrive while the driver sleeps.
Wait ==
    /\ pc = "wait"
    /\ Push("delay1")
    /\ timeout' = (timeout + 1) % 256
    /\ \E a \in avail..returnSize : avail' = a
    /\ IF TimeoutExpired(timeout')
       THEN pc' = "done" /\ result' = TimeoutValue
       ELSE pc' = "poll" /\ UNCHANGED result
    /\ UNCHANGED <<caller, instr, returnSize, msb, lsb, rx, fDepth, regVars, serialVars>>

\* One Wire.read(): the next byte of the transport.
Consume(b) ==
    /\ rx' = Append(rx, b)
    /\ avail' = IF avail > 0 THEN avail - 1 ELSE 0
    /\ Push("read")

\* Line 57: uint16_t msb = Wire.read().
ReadMsb ==
    /\ pc = "readMsb"
    /\ \E b \in SensorBytes : Consume(b) /\ msb' = b
    /\ pc' = "readLsb"
    /\ UNCHANGED <<caller, instr, returnSize, timeout, lsb, result, fDepth, regVars, serialVars>>

\* Lines 58-60: uint8_t lsb = Wire.read(); if (returnSize >= 3).
ReadLsb ==
    /\ pc = "readLsb"
    /\ \E b \in SensorBytes : Consume(b) /\ lsb' = b
    /\ pc' = IF returnSize >= 3 THEN "readCrc" ELSE "finish"
    /\ UNCHANGED <<caller, instr, returnSize, timeout, msb, result, fDepth, regVars, serialVars>>

\* Line 61: Wire.read(), the checksum, thrown away.
ReadChecksum ==
    /\ pc = "readCrc"
    /\ \E b \in SensorBytes : Consume(b)
    /\ pc' = "finish"
    /\ UNCHANGED <<caller, instr, returnSize, timeout, msb, lsb, result, fDepth, regVars, serialVars>>

\* Lines 66-68: lsb &= 0xFC; return (uint16_t)((msb << 8) | lsb).
Finish ==
    /\ pc = "finish"
    /\ lsb' = ClearLow2Bits(lsb)
    /\ result' = Combine(msb, lsb')
    /\ pc' = "done"
    /\ UNCHANGED <<caller, instr, returnSize, timeout, avail, msb, rx, trace, fDepth, regVars, serialVars>>

\* getTemperatureFromPreviousHumidityMeasurementF, lines 117-119: a call from outside.
CallFahrenheit ==
    /\ pc \in {"idle", "done"}
    /\ pc' = "inF"
    /\ fDepth' = 1
    /\ caller' = "getTemperatureFromPreviousHumidityMeasurementF"
    /\ UNCHANGED <<instr, returnSize, timeout, avail, msb, lsb, rx, result, trace, regVars, serialVars>>

\* Line 118: the body's first step is a call of the same function.
FahrenheitBody ==
    /\ pc = "inF"
    /\ fDepth < MaxDepth
    /\ fDepth' = fDepth + 1
    /\ UNCHANGED <<pc, caller, instr, returnSize, timeout, avail, msb, lsb, rx, result, trace, regVars, serialVars>>

\* The stack is full: the recursion of line 118 ends the program.
StackOverflow ==
    /\ pc = "inF"
    /\ fDepth = MaxDepth
    /\ pc' = "crashed"
    /\ UNCHANGED <<caller, instr, returnSize, timeout, avail, msb, lsb, rx, result, trace, fDepth, regVars, serialVars>>

----------------------------------------------------------------------------
\* The register operations.  The device keeps what writeRegister sends it.

\* Register values the device may hold when the driver starts.
UserRegSamples == {58, 0, 255, 129}
HeaterRegSamples == {0, 15, 165, 240}

\* Arguments of setHeater and setSensorResolution.
Powers == {0, 5, 15, 250}
Resolutions == {0, 1, 2, 3, 4, 255}

\* What readRegister's local buffer may hold when the device sends nothing.
Uninitialised == {0, 255}

\* readRegister, lines 227-238: buffer is assigned only while Wire.available();
\* when the device delivers no byte the function returns buffer as it was.
ReadRegister(device, delivered, stale) == IF delivered THEN device ELSE stale

\* The values buffer may hold that matter to a read: none when the device answers.
Stale(delivered) == IF delivered THEN {0} ELSE Uninitialised

\* setHeater, line 206: reg |= (power & 0x0F).
MergePower(reg, power) == BitOr(reg, BitAnd(power, 15))

\* setHeater, line 212: reg |= 0x04.
EnableHeaterWide(reg) == BitOr(reg, 5)
EnableHeater(reg) == BitOr(reg, 4)

\* setHeater, line 219: reg &= 0xFB.
DisableHeater(reg) == BitAnd(reg, 251)

\* setSensorResolution, line 267: reg &= 0x7E.
ClearResolution(reg) == BitAnd(reg, 126)

\* setSensorResolution, lines 270-281: the switch; case 0x03 falls into the empty default.
ApplyResolutionNoCase3(reg, resolution) ==
    CASE resolution = 1 -> BitOr(reg, 1)
      [] resolution = 2 -> BitOr(reg, 128)
      [] OTHER -> reg
ApplyResolution(reg, resolution) ==
    CASE resolution = 1 -> BitOr(reg, 1)
      [] resolution = 2 -> BitOr(reg, 128)
      [] resolution = 3 -> BitOr(reg, 129)
      [] OTHER -> reg

RegRead(r, v) == [op |-> "read", reg |-> r, val |-> v]
RegWrite(r, v) == [op |-> "write", reg |-> r, val |-> v]

Called(name, on, arg, ok) ==
    /\ last' = [op |-> name, on |-> on, arg |-> arg, preUser |-> userReg,
                preHeater |-> heaterReg, ok |-> ok]
    /\ faithful' = (faithful /\ ok)
    /\ UNCHANGED <<initUserReg, sensorVars, serialVars>>

\* setHeater(true, power), lines 202-215.
SetHeaterOn ==
    \E power \in Powers, d1 \in BOOLEAN, d2 \in BOOLEAN :
      \E s1 \in Stale(d1), s2 \in Stale(d2) :
        LET h == ReadRegister(heaterReg, d1, s1)
            hw == MergePower(h, power)
            u == ReadRegister(userReg, d2, s2)
            uw == EnableHeater(u)
        IN  /\ heaterReg' = hw
            /\ userReg' = uw
            /\ busLog' = <<RegRead("heater", h), RegWrite("heater", hw),
                           RegRead("user", u), RegWrite("user", uw)>>
            /\ Called("setHeater", TRUE, power, d1 /\ d2)

\* setHeater(false, power), lines 216-221.
SetHeaterOff ==
    \E power \in Powers, d \in BOOLEAN :
      \E s \in Stale(d) :
        LET u == ReadRegister(userReg, d, s)
            uw == DisableHeater(u)
        IN  /\ userReg' = uw
            /\ UNCHANGED heaterReg
            /\ busLog' = <<RegRead("user", u), RegWrite("user", uw)>>
            /\ Called("setHeater", FALSE, power, d)

\* setSensorResolution(resolution), lines 253-286.
SetSensorResolution ==
    \E resolution \in Resolutions, d \in BOOLEAN :
      \E s \in Stale(d) :
        LET u == ReadRegister(userReg, d, s)
            uw == ApplyResolution(ClearResolution(u), resolution)
        IN  /\ userReg' = uw
            /\ UNCHANGED heaterReg
            /\ busLog' = <<RegRead("user", u), RegWrite("user", uw)>>
            /\ Called("setSensorResolution", FALSE, resolution, d)

----------------------------------------------------------------------------
\* getSerialNumber.

\* The bytes the transport hands out, and how many of the 8 asked for it delivers.
SerialBytes == {18, 239}
SerialDelivered == {0, 3, 8}

\* Lines 151 and 164: serialNo = (serialNo << 8) | buffer, on 64 bits: the top
\* byte falls off, the new byte becomes the lowest.
ShiftInByteNoShift(s, b) == SubSeq(s, 1, 7) \o <<BitOr(s[8], b)>>
ShiftInByte(s, b) == Tail(s) \o <<b>>

\* Lines 138-139: a call.
GetSerialNumber ==
    /\ spc \in {"idle", "done"}
    /\ spc' = "cmd1"
    /\ serialNo' = <<0, 0, 0, 0, 0, 0, 0, 0>>
    /\ buffer' = 0
    /\ savail' = 0
    /\ wire1' = <<>>
    /\ wire2' = <<>>
    /\ UNCHANGED <<sensorVars, regVars>>

\* Lines 142-148: the command 0xFA 0x0F, then requestFrom(SI7021_ADDRESS, 8).
SerialRequest1 ==
    /\ spc = "cmd1"
    /\ spc' = "loop1"
    /\ \E k \in SerialDelivered : savail' = k
    /\ UNCHANGED <<serialNo, buffer, wire1, wire2, sensorVars, regVars>>

\* Lines 149-153: while (Wire.available() >= 2), one round.
SerialLoop1 ==
    /\ spc = "loop1"
    /\ savail >= 2
    /\ \E d \in SerialBytes, c \in SerialBytes :
        /\ buffer' = d
        /\ serialNo' = ShiftInByte(serialNo, d)
        /\ wire1' = wire1 \o <<d, c>>
    /\ savail' = savail - 2
    /\ UNCHANGED <<spc, wire2, sensorVars, regVars>>

\* Lines 149, 155-161: the loop ends; the command 0xFC 0xC9, then requestFrom(SI7021_ADDRESS, 8).
SerialRequest2 ==
    /\ spc = "loop1"
    /\ savail < 2
    /\ spc' = "loop2"
    /\ \E k \in SerialDelivered : savail' = k
    /\ UNCHANGED <<serialNo, buffer, wire1, wire2, sensorVars, regVars>>

\* Lines 162-166: while (Wire.available() >= 2), one round.
SerialLoop2 ==
    /\ spc = "loop2"
    /\ savail >= 2
    /\ \E d \in SerialBytes, c \in SerialBytes :
        /\ buffer' = d
        /\ serialNo' = ShiftInByte(serialNo, d)
        /\ wire2' = wire2 \o <<d, c>>
    /\ savail' = savail - 2
    /\ UNCHANGED <<spc, wire1, sensorVars, regVars>>

\* Lines 162, 168: the loop ends; return serialNo.
SerialReturn ==
    /\ spc = "loop2"
    /\ savail < 2
    /\ spc' = "done"
    /\ UNCHANGED <<serialNo, buffer, savail, wire1, wire2, sensorVars, regVars>>

----------------------------------------------------------------------------
BaseInit ==
    /\ pc = "idle"
    /\ caller = "none"
    /\ instr = "none"
    /\ returnSize = 0
    /\ timeout = 0
    /\ avail = 0
    /\ msb = 0
    /\ lsb = 0
    /\ rx = <<>>
    /\ result = 0
    /\ trace = <<>>
    /\ fDepth = 0
    /\ initUserReg = userReg
    /\ faithful = TRUE
    /\ last = [op |-> "none", on |-> FALSE, arg |-> 0, preUser |-> userReg,
               preHeater |-> heaterReg, ok |-> TRUE]
    /\ busLog = <<>>
    /\ spc = "idle"
    /\ serialNo = <<0, 0, 0, 0, 0, 0, 0, 0>>
    /\ buffer = 0
    /\ savail = 0
    /\ wire1 = <<>>
    /\ wire2 = <<>>

\* The device after power-up: the user register holds 0x3A (lines 210, 263), the heater is off.
Init ==
    /\ userReg = 58
    /\ heaterReg = 0
    /\ BaseInit

SensorNext ==
    \/ MeasureTemperature
    \/ MeasureHumidity
    \/ GetTemperatureFromPreviousHumidityMeasurement
    \/ ReadSensorCall
    \/ BeginTransmission
    \/ WriteInstr
    \/ EndTransmission
    \/ Delay25
    \/ RequestFrom
    \/ Poll
    \/ Wait
    \/ ReadMsb
    \/ ReadLsb
    \/ ReadChecksum
    \/ Finish
    \/ CallFahrenheit
    \/ FahrenheitBody
    \/ StackOverflow

SensorSpec == Init /\ [][SensorNext]_vars

\* The driver attached to a device whose registers hold earlier settings.
RegInit ==
    /\ userReg \in UserRegSamples
    /\ heaterReg \in HeaterRegSamples
    /\ BaseInit

RegNext ==
    \/ SetHeaterOn
    \/ SetHeaterOff
    \/ SetSensorResolution

RegSpec == RegInit /\ [][RegNext]_vars

SerialNext ==
    \/ GetSerialNumber
    \/ SerialRequest1
    \/ SerialLoop1
    \/ SerialRequest2
    \/ SerialLoop2
    \/ SerialReturn

SerialSpec == Init /\ [][SerialNext]_vars

----------------------------------------------------------------------------
\* Properties of readSensor (SensorSpec).

Count(ev) == Cardinality({i \in DOMAIN trace : trace[i] = ev})
Observed == \E i \in DOMAIN trace : trace[i] = "availableOk"
GaveUp == pc = "done" /\ Len(trace) > 0 /\ trace[Len(trace)] = "delay1"
Succeeded == pc = "done" /\ Len(trace) > 0 /\ trace[Len(trace)] = "read"

\* C1: when the available byte count never reaches returnSize while readSensor
\* polls, the call returns exactly 1; when the call returns by reading bytes,
\* the value returned is never 1, whatever bytes the transport supplies.
C1_TimeoutSentinel ==
    /\ (pc = "done" /\ ~Observed /\ avail < returnSize) => result = 1
    /\ (pc = "done" /\ rx # <<>>) => result # 1

\* A successful read of msb = 0x00, lsb = 0x01: the closest valid data comes to 1.
C1_Witness ==
    /\ pc = "done"
    /\ Len(rx) >= 2
    /\ rx[1] = 0
    /\ rx[2] = 1
    /\ result = 0

\* C4 (as claimed): a call of getTemperatureFromPreviousHumidityMeasurementF
\* never calls itself: at most one frame of it is ever live.
C4_NoSelfCall == fDepth <= 1

\* C5 (as claimed): a call that gives up has made at most SI7021_READ_TIMEOUT
\* polling increments of 1 ms.
C5_AtMostReadTimeout == GaveUp => Count("delay1") <= SI7021_READ_TIMEOUT

\* C5 (amended): readSensor's poll loop is bounded: the counter equals the
\* number of 1 ms increments made (it never wraps), it never exceeds
\* SI7021_READ_TIMEOUT + 1, polling goes on only while it is at most
\* SI7021_READ_TIMEOUT, and a call that gives up has made exactly
\* SI7021_READ_TIMEOUT + 1 increments and returns 1.
C5_BoundedPoll ==
    /\ timeout = Count("delay1")
    /\ timeout <= SI7021_READ_TIMEOUT + 1
    /\ pc \in {"poll", "wait"} => timeout <= SI7021_READ_TIMEOUT
    /\ GaveUp => (Count("delay1") = SI7021_READ_TIMEOUT + 1 /\ result = 1)

\* A call that gave up although the device delivered part of the answer.
C5_Witness ==
    /\ GaveUp
    /\ returnSize = 3
    /\ avail = 2
    /\ timeout = SI7021_READ_TIMEOUT + 1

\* C6: on success the value returned is (msb << 8) | (lsb & 0xFC) of the first
\* two bytes delivered: its two low bits are 0, its high byte is msb, and the
\* checksum byte plays no part.
C6_RawValue ==
    Succeeded =>
        /\ Len(rx) >= 2
        /\ result = rx[1] * 256 + (rx[2] - (rx[2] % 4))
        /\ result % 4 = 0
        /\ result \div 256 = rx[1]

\* A three byte read whose lsb has both low bits set and whose checksum is not 0.
C6_Witness ==
    /\ Succeeded
    /\ rx = <<130, 255, 1>>
    /\ result = 33532

BusPrefix == <<"beginTransmission", "write", "endTransmission", "delay25", "requestFrom">>

\* C9: in a readSensor call the command write is begun and committed, then the
\* fixed delay passes, then the read request is issued, then availability is
\* polled; no byte is read before availability was seen to be at least
\* returnSize; a call that gives up has read no byte and a successful one
\* exactly returnSize bytes.
C9_BusOrder ==
    /\ \A i \in DOMAIN trace :
        /\ i <= 5 => trace[i] = BusPrefix[i]
        /\ i = 6 => trace[i] \in {"availableLow", "availableOk"}
        /\ i > 5 => trace[i] \in {"availableLow", "availableOk", "delay1", "read"}
        /\ trace[i] = "delay1" => trace[i - 1] = "availableLow"
        /\ trace[i] = "read" => \E j \in 1..(i - 1) : trace[j] = "availableOk"
    /\ Count("read") = Len(rx)
    /\ GaveUp => rx = <<>>
    /\ Succeeded => Len(rx) = returnSize
    /\ pc = "done" => (GaveUp \/ Succeeded)

\* A three byte read that succeeded after the driver had to wait.
C9_Witness ==
    /\ Succeeded
    /\ returnSize = 3
    /\ Len(rx) = 3
    /\ timeout = 2

----------------------------------------------------------------------------
\* Properties of the register operations (RegSpec).

\* C2 (as claimed): after setHeater(true, power) with faithful register
\* reads, the heater register's low 4 bits are power & 0x0F and its upper 4
\* bits are those it had before.
C2_HeaterPower ==
    (last.op = "setHeater" /\ last.on /\ last.ok) =>
        /\ heaterReg % 16 = last.arg % 16
        /\ heaterReg \div 16 = last.preHeater \div 16

ResolutionPattern == <<0, 1, 128, 129>>

\* C3: setSensorResolution(k), k in 0..3, writes the user register with
\* (u & 0x7E) | P(k), u the value its read returned and P = 0x00, 0x01, 0x80,
\* 0x81; bits 1..6 are those read.
C3_ResolutionWrite ==
    (last.op = "setSensorResolution" /\ last.arg \in 0..3) =>
        /\ Len(busLog) = 2
        /\ busLog[1] = RegRead("user", busLog[1].val)
        /\ last.ok => busLog[1].val = last.preUser
        /\ busLog[2] = RegWrite("user", ((busLog[1].val % 128) - (busLog[1].val % 2))
                                        + ResolutionPattern[last.arg + 1])
        /\ userReg = busLog[2].val
        /\ (userReg % 128) \div 2 = (busLog[1].val % 128) \div 2

\* setSensorResolution(3) on the power-up value 0x3A leaves 0xBB.
C3_Witness ==
    /\ last.op = "setSensorResolution"
    /\ last.arg = 3
    /\ last.ok
    /\ last.preUser = 58
    /\ userReg = 187

\* C8 (as claimed): setSensorResolution with an argument outside 0..3 either
\* leaves the user register as it was (the argument is rejected) or leaves it
\* as resolution 3 would (the argument is clamped): the resolution bits D7 and
\* D0 never take any other pattern.
C8_OutOfRange ==
    (last.op = "setSensorResolution" /\ last.arg \notin 0..3 /\ last.ok) =>
        \/ userReg = last.preUser
        \/ userReg = BitOr(BitAnd(last.preUser, 126), 129)

\* C10: with faithful register reads, bits 1, 3, 4, 5 and 6 of the user
\* register keep their first values; setHeater changes at most bit 2 of it,
\* setSensorResolution at most bits 7 and 0 and never the heater register;
\* setHeater(false, _) clears bit 2 and writes no heater register; every
\* register write follows a read of the same register and differs from the
\* value read only in the bits the operation sets.
C10_Frame ==
    /\ faithful => BitAnd(userReg, 122) = BitAnd(initUserReg, 122)
    /\ (last.op = "setHeater" /\ last.ok) =>
            BitAnd(userReg, 251) = BitAnd(last.preUser, 251)
    /\ (last.op = "setHeater" /\ last.on /\ last.ok) => BitAnd(userReg, 4) = 4
    /\ (last.op = "setHeater" /\ ~last.on) =>
            /\ \A i \in DOMAIN busLog : busLog[i].reg = "user"
            /\ heaterReg = last.preHeater
            /\ BitAnd(userReg, 4) = 0
    /\ (last.op = "setSensorResolution") =>
            /\ \A i \in DOMAIN busLog : busLog[i].reg = "user"
            /\ heaterReg = last.preHeater
            /\ last.ok => BitAnd(userReg, 126) = BitAnd(last.preUser, 126)
    /\ \A i \in DOMAIN busLog :
        busLog[i].op = "write" =>
            /\ i > 1
            /\ busLog[i - 1].op = "read"
            /\ busLog[i - 1].reg = busLog[i].reg
            /\ busLog[i].reg = "heater" =>
                    BitAnd(busLog[i].val, 240) = BitAnd(busLog[i - 1].val, 240)
            /\ busLog[i].reg = "user" =>
                    BitAnd(busLog[i].val, 122) = BitAnd(busLog[i - 1].val, 122)
            /\ busLog[i].reg = "user" => userReg = busLog[i].val
            /\ busLog[i].reg = "heater" => heaterReg = busLog[i].val

\* The heater switched on, at a power with bits above the low 4, on a device
\* whose user register had bit 0 clear and bit 2 clear, after a resolution change.
C10_Witness ==
    /\ last.op = "setHeater"
    /\ last.on
    /\ last.ok
    /\ faithful
    /\ last.arg = 250
    /\ last.preUser = 186
    /\ userReg = 190
    /\ initUserReg = 58

----------------------------------------------------------------------------
\* Properties of getSerialNumber (SerialSpec).

\* C7: when both transactions deliver their 8 bytes, the value returned is the
\* big-endian concatenation of the 8 data bytes (the 1st, 3rd, 5th and 7th of
\* each transaction), whatever the checksum bytes between them.
C7_SerialNumber ==
    (spc = "done" /\ Len(wire1) = 8 /\ Len(wire2) = 8) =>
        serialNo = <<wire1[1], wire1[3], wire1[5], wire1[7],
                     wire2[1], wire2[3], wire2[5], wire2[7]>>

\* Both transactions complete, data and checksum bytes differing.
C7_Witness ==
    /\ spc = "done"
    /\ wire1 = <<18, 239, 239, 18, 18, 18, 239, 239>>
    /\ wire2 = <<239, 18, 18, 239, 239, 239, 18, 18>>
    /\ serialNo = <<18, 239, 18, 239, 239, 18, 239, 18>>

====
